---- MODULE Spec2Model ----
(***************************************************************************)
(* Model of src/main.py: a bot that creates tickets in bulk through a      *)
(* browser UI.  The run controller (AutomationBot.run_automation), the     *)
(* per-item workflow (AutomationBot.process_ticket_creation with           *)
(* validate_filter_result) and the dropdown driver                         *)
(* (ElementHelper.handle_vue_select_dropdown) are modelled as state        *)
(* machines, and so are the life of the browser session (create_driver,    *)
(* cleanup, the exit of the process), the delivery of SIGINT / SIGTERM to  *)
(* signal_handler, and ElementHelper.wait_for_element.                     *)
(* The browser is the environment: every answer it can give                *)
(* (element found or not, click accepted or not, which row the result      *)
(* table shows) is a nondeterministic choice.                              *)
(*                                                                         *)
(* Strings whose content the code inspects (lines of the daily file,       *)
(* option texts, codes) are sequences of one-character strings.            *)
(***************************************************************************)
EXTENDS Integers, Sequences, FiniteSets, TLC

VARIABLES
    \* ---- inputs (files on disk) --------------------------------------
    master_file,      \* rows of the master CSV still to be read
    daily_file,       \* lines of the daily input file still to be read
    \* ---- read_daily_input (driven on its own, line by line) ------------
    lines_read,       \* the lines `for line in file` has yielded so far
    seen_codes,       \* the local set `seen_codes`
    \* ---- main / run_automation ----------------------------------------
    pc,               \* position of the single thread of control
    driver,           \* WebDriverManager.driver: "none" | "open"
    master_data,      \* keys of the dict returned by load_master_data
    kode_dp_list,     \* list returned by read_daily_input
    index,            \* 1-based position of the item loop (enumerate(..., 1))
    attempt,          \* loop variable of `for attempt in range(MAX_RETRIES)`
    success,          \* local `success` of the item loop
    processed_dps,    \* AutomationBot.processed_dps
    stats,            \* AutomationBot.stats counters
    result,           \* value returned by main(): "none" | "true" | "false"
    \* ---- process_ticket_creation / validate_filter_result -------------
    filter_attempt,   \* loop variable of `for filter_attempt in range(3)`
    v_attempt,        \* loop variable of validate_filter_result
    validation_status,\* last status returned by validate_filter_result
    result_dp_text,   \* local `result_dp_text` of the validation that decided
    wf_ret,           \* value returned by process_ticket_creation
    \* ---- observed behaviour --------------------------------------------
    item_trace,       \* calls made for the current item, in order
    wf_clicks,        \* filter clicks accepted in the current workflow run
    wf_validations,   \* validations finished in the current workflow run
    contrib,          \* counter increments so far: <<counter, code>>
    wf_true,          \* codes for which process_ticket_creation returned True
    no_data_codes,    \* codes for which validation reported NO_DATA
    wf_actions,       \* UI actions of the current workflow run: <<step, ok>>
    \* ---- session handle, report and process exit ----------------------
    service,          \* WebDriverManager.service: "none" | "held"
    start_time,       \* stats['start_time'] is set
    end_time_sets,    \* number of assignments to stats['end_time']
    quit_calls,       \* number of driver.quit() calls issued
    cleanups,         \* number of WebDriverManager.cleanup() calls completed
    report,           \* generate_final_report has logged the summary
    exit_code,        \* exit status of the process, -1 while it runs
    cl_ctx,           \* the caller of the cleanup() in progress
    exc,              \* exception propagating: "none" | "Exception" | "SystemExit"
    \* ---- signals ------------------------------------------------------
    sig_log,          \* one record per signal delivered to signal_handler
    logged_in,        \* login() has returned True in this run
    last_navigation,  \* what the last navigate_to_dp_menu call, made directly
                      \* or by handle_page_refresh_and_navigation, returned:
                      \* "none" | "true" | "false"
    \* ---- handle_vue_select_dropdown (driven on its own) ----------------
    dd_pc,            \* position inside the dropdown driver
    dd_options,       \* texts of the rendered <li> options, document order
    dd_value,         \* value_to_select
    dd_attempt,       \* loop variable of `for attempt in range(max_retries)`
    dd_selected,      \* texts of the options the widget was made to select
    dd_via,           \* the branch that selected: "exact", "contains", "keyboard"
    dd_ret,           \* value returned: "none" | "true" | "false"
    \* ---- wait_for_element (driven on its own) --------------------------
    loc_selectors,    \* what the page holds for each selector, in list order
    loc_clickable,    \* the parameter `clickable`
    loc_i,            \* 1-based position of `for selector in selectors`
    loc_ret,          \* -1 while running, 0 for None, k for selector k's element
    \* ---- safe_click (driven on its own) --------------------------------
    sc_target,        \* element_or_selectors: "selectors" (list/str) | "handle"
    sc_use_js,        \* the parameter `use_js`
    sc_element,       \* the local `element`: "none" | "element"
    sc_attempt,       \* loop variable of `for attempt in range(max_attempts)`
    sc_log,           \* what the call did to the page, in order
    sc_ret            \* value returned: "none" | "true" | "false"

runVars == <<pc, driver, master_data, kode_dp_list, index, attempt, success,
             processed_dps, stats, result>>
wfVars == <<filter_attempt, v_attempt, validation_status, result_dp_text,
           wf_ret>>
obsVars == <<item_trace, wf_clicks, wf_validations, contrib, wf_true,
             no_data_codes, wf_actions>>
lifeVars == <<service, start_time, end_time_sets, quit_calls, cleanups,
              report, exit_code, cl_ctx, exc>>
sigVars == <<sig_log>>
locVars == <<loc_selectors, loc_clickable, loc_i, loc_ret>>
navVars == <<logged_in, last_navigation>>
clickVars == <<sc_target, sc_use_js, sc_element, sc_attempt, sc_log, sc_ret>>
inVars == <<master_file, daily_file, lines_read, seen_codes>>
ddVars == <<dd_pc, dd_options, dd_value, dd_attempt, dd_selected, dd_via,
           dd_ret>>
vars == <<inVars, runVars, wfVars, obsVars, lifeVars, sigVars, locVars, clickVars, navVars,
          ddVars>>

(***************************************************************************)
(* Program constants and bounds                                            *)
(***************************************************************************)
MAX_RETRIES == 3
MAX_CLICK_ATTEMPTS == 3
DROPDOWN_RETRIES == 3
FILTER_ATTEMPTS == 3
VALIDATE_ATTEMPTS == 3

MaxLines == 3
MaxOptions == 2
\* Signals delivered in one run, and lines of the daily file in the runs
\* with signals.
MaxSignals == 2
MaxSignalLines == 2
\* Selectors in the list given to wait_for_element.
MaxSelectors == 3
\* Calls of cleanup() made one after the other.
MaxCleanups == 4

(***************************************************************************)
(* Text                                                                    *)
(***************************************************************************)
DP001 == <<"D", "P", "1">>
DP002 == <<"D", "P", "2">>
DP003 == <<"D", "P", "3">>

IsSpace(ch) == ch = " "

RECURSIVE LStrip(_)
LStrip(s) == IF s # <<>> /\ IsSpace(Head(s)) THEN LStrip(Tail(s)) ELSE s

RECURSIVE RStrip(_)
RStrip(s) ==
    IF s # <<>> /\ IsSpace(s[Len(s)]) THEN RStrip(SubSeq(s, 1, Len(s) - 1)) ELSE s

\* str.strip()
Strip(s) == RStrip(LStrip(s))

\* str.startswith(p)
StartsWith(s, p) == Len(s) >= Len(p) /\ SubSeq(s, 1, Len(p)) = p

(***************************************************************************)
(* DataManager                                                             *)
(***************************************************************************)
Row(kode, city, rk) == [Kode_DP |-> kode, City |-> city, RK |-> rk]

MasterRows == { Row(DP001, <<"X">>, <<"Y">>),
                Row(DP002, <<"Z">>, <<"W">>),
                Row(DP003, <<" ">>, <<"V">>) }

\* A row with any required field blank after strip() is skipped.
UsableRow(row) ==
    /\ Strip(row.Kode_DP) # <<>>
    /\ Strip(row.City) # <<>>
    /\ Strip(row.RK) # <<>>

\* The keys of the dict load_master_data returns; {} stands for None
\* (a file without a usable row raises ValueError, which returns None).
load_master_data(rows) == { Strip(row.Kode_DP) : row \in { r \in rows : UsableRow(r) } }

DailyLines == { DP001, DP002, DP003, <<"#">> \o DP001, <<" ">> \o DP002 \o <<" ">> }

\* The test of the loop body, were it not to look at seen_codes.
SkipsLineNotLookingAtSeen(line, seen) ==
    line = <<>> \/ StartsWith(line, <<"#">>)

\* `if not line or line.startswith('#') or line in seen_codes: continue`
SkipsLine(line, seen) ==
    line = <<>> \/ StartsWith(line, <<"#">>) \/ line \in seen

RECURSIVE ReadLines(_, _, _)
ReadLines(lines, seen, out) ==
    IF lines = <<>> THEN out
    ELSE LET line == Strip(Head(lines)) IN
         IF SkipsLine(line, seen)
         THEN ReadLines(Tail(lines), seen, out)
         ELSE ReadLines(Tail(lines), seen \cup {line}, Append(out, line))

RECURSIVE ReadLinesKeepingDuplicates(_, _)
ReadLinesKeepingDuplicates(lines, out) ==
    IF lines = <<>> THEN out
    ELSE LET line == Strip(Head(lines)) IN
         IF line = <<>> \/ StartsWith(line, <<"#">>)
         THEN ReadLinesKeepingDuplicates(Tail(lines), out)
         ELSE ReadLinesKeepingDuplicates(Tail(lines), Append(out, line))

\* read_daily_input as it would be without the seen_codes test.
read_daily_input_keeping_duplicates(lines) == ReadLinesKeepingDuplicates(lines, <<>>)

read_daily_input(lines) == ReadLines(lines, {}, <<>>)

SeqsUpTo(S, n) == UNION { [1..k -> S] : k \in 0..n }

(***************************************************************************)
(* Initial state: the state after AutomationBot() is constructed           *)
(***************************************************************************)
NoStats == [successful |-> 0, failed |-> 0, skipped |-> 0]

IdleDropdown ==
    /\ dd_pc = "idle"
    /\ dd_options = <<>>
    /\ dd_value = <<>>
    /\ dd_attempt = 0
    /\ dd_selected = <<>>
    /\ dd_via = "none"
    /\ dd_ret = "none"

IdleLocate ==
    /\ loc_selectors = <<>>
    /\ loc_clickable = TRUE
    /\ loc_i = 0
    /\ loc_ret = -1

\* read_daily_input is not being stepped through line by line.
IdleRead ==
    /\ lines_read = <<>>
    /\ seen_codes = {}

\* No safe_click call is in progress.
IdleClick ==
    /\ sc_target = "none"
    /\ sc_use_js = FALSE
    /\ sc_element = "none"
    /\ sc_attempt = 0
    /\ sc_log = <<>>
    /\ sc_ret = "none"

IdleRun ==
    /\ driver = "none"
    /\ master_data = {}
    /\ kode_dp_list = <<>>
    /\ index = 0
    /\ attempt = 0
    /\ success = FALSE
    /\ processed_dps = {}
    /\ stats = NoStats
    /\ result = "none"
    /\ filter_attempt = 0
    /\ v_attempt = 0
    /\ validation_status = "none"
    /\ result_dp_text = <<>>
    /\ wf_ret = "none"
    /\ item_trace = <<>>
    /\ wf_clicks = 0
    /\ wf_validations = 0
    /\ contrib = <<>>
    /\ wf_true = {}
    /\ no_data_codes = {}
    /\ wf_actions = <<>>
    /\ service = "none"
    /\ start_time = FALSE
    /\ end_time_sets = 0
    /\ quit_calls = 0
    /\ cleanups = 0
    /\ report = FALSE
    /\ exit_code = -1
    /\ cl_ctx = "none"
    /\ exc = "none"
    /\ sig_log = <<>>
    /\ logged_in = FALSE
    /\ last_navigation = "none"

Init ==
    /\ master_file \in SUBSET MasterRows
    /\ daily_file \in SeqsUpTo(DailyLines, MaxLines)
    /\ IdleRead
    /\ pc = "main"
    /\ IdleRun
    /\ IdleDropdown
    /\ IdleLocate
    /\ IdleClick

kode_dp_value == kode_dp_list[index]

\* A call of cleanup(): AutomationBot.cleanup starts with the end timestamp,
\* WebDriverManager.cleanup (called by create_driver) with the driver.
CallCleanup(ctx) ==
    /\ cl_ctx' = ctx
    /\ pc' = IF ctx = "create_driver" THEN "cl_driver" ELSE "cl_begin"

\* `return <value>` inside run_automation's try: its `finally` runs
\* self.cleanup() before main() gets the value.
Return(value) ==
    /\ result' = value
    /\ CallCleanup("run_automation")

\* A failure of create_driver, were it logged and the run carried on.
CreateDriverFailsUnnoticed ==
    /\ pc' = "load_master"
    /\ UNCHANGED <<cl_ctx, exc>>

\* An exception inside create_driver's try: `self.cleanup(); raise`.
CreateDriverFails ==
    /\ exc' = "Exception"
    /\ CallCleanup("create_driver")

(***************************************************************************)
(* main / initialize / create_driver                                       *)
(***************************************************************************)
\* create_driver up to the browser: Service() and Chrome(service=...), and
\* Chrome(options=...) when either of them raises.
CreateDriver ==
    /\ pc = "main"
    /\ \E service_made, started, fallback_started \in BOOLEAN :
        /\ service' = IF service_made THEN "held" ELSE "none"
        /\ IF (service_made /\ started) \/ fallback_started
           THEN /\ driver' = "open"
                /\ pc' = "cd_config"
                /\ UNCHANGED <<cl_ctx, exc>>
           ELSE /\ CreateDriverFails
                /\ UNCHANGED driver
    /\ UNCHANGED <<inVars, master_data, kode_dp_list, index, attempt, success,
                   processed_dps, stats, result, wfVars, obsVars, start_time,
                   end_time_sets, quit_calls, cleanups, report, exit_code,
                   sigVars, locVars, clickVars, navVars, ddVars>>

\* The rest of create_driver (timeouts, execute_script) and of initialize
\* (helper, stats['start_time'], return True); main then calls
\* run_automation.
Initialize ==
    /\ pc = "cd_config"
    /\ \E configured \in BOOLEAN :
        IF configured
        THEN /\ start_time' = TRUE
             /\ pc' = "load_master"
             /\ UNCHANGED <<cl_ctx, exc>>
        ELSE /\ CreateDriverFails
             /\ UNCHANGED start_time
    /\ UNCHANGED <<inVars, driver, master_data, kode_dp_list, index, attempt,
                   success, processed_dps, stats, result, wfVars, obsVars,
                   service, end_time_sets, quit_calls, cleanups, report,
                   exit_code, sigVars, locVars, clickVars, navVars, ddVars>>

(***************************************************************************)
(* AutomationBot.cleanup / WebDriverManager.cleanup                        *)
(***************************************************************************)
\* AutomationBot.cleanup: the end timestamp is set when the run has started
\* and has no end timestamp yet; then driver_manager.cleanup().
CleanupBegin ==
    /\ pc = "cl_begin"
    /\ end_time_sets' = IF start_time /\ end_time_sets = 0
                        THEN 1 ELSE end_time_sets
    /\ pc' = "cl_driver"
    /\ UNCHANGED <<inVars, driver, master_data, kode_dp_list, index, attempt,
                   success, processed_dps, stats, result, wfVars, obsVars,
                   service, start_time, quit_calls, cleanups, report,
                   exit_code, cl_ctx, exc, sigVars, locVars, clickVars, navVars, ddVars>>

\* The handle after quit(), were it cleared only when quit() returned.
DriverAfterQuitWithoutFinally(quit_raised) ==
    IF quit_raised THEN "open" ELSE "none"

\* `finally: self.driver = None`, whether quit() returned or raised.
DriverAfterQuit(quit_raised) == "none"

\* `if self.driver:` quit(); close() when quit() raises, errors passed.
CleanupDriver ==
    /\ pc = "cl_driver"
    /\ IF driver = "open"
       THEN \E quit_raised \in BOOLEAN :
               /\ quit_calls' = quit_calls + 1
               /\ driver' = DriverAfterQuit(quit_raised)
       ELSE UNCHANGED <<driver, quit_calls>>
    /\ pc' = "cl_service"
    /\ UNCHANGED <<inVars, master_data, kode_dp_list, index, attempt,
                   success, processed_dps, stats, result, wfVars, obsVars,
                   service, start_time, end_time_sets, cleanups, report,
                   exit_code, cl_ctx, exc, sigVars, locVars, clickVars, navVars, ddVars>>

\* The exit status, were a run that returned False to exit like one that
\* returned True.
ExitCodeIgnoringResult ==
    IF exc = "SystemExit" \/ result \in {"true", "false"} THEN 0 ELSE 1

\* sys.exit(0 if success else 1) in __main__; a SystemExit raised by
\* signal_handler's sys.exit(0) carries its own code.
ExitCode == IF exc = "SystemExit" THEN 0
            ELSE IF result = "true" THEN 0 ELSE 1

\* Where control goes when the cleanup() called by `ctx` has returned.
AfterCleanup(ctx) ==
    CASE ctx = "create_driver" ->
            \* `raise` reaches initialize's except: self.cleanup()
            /\ exc' = "none"
            /\ CallCleanup("initialize")
            /\ UNCHANGED <<result, exit_code>>
      [] ctx = "initialize" ->
            \* initialize returns False, main returns False: `finally`
            /\ result' = "false"
            /\ CallCleanup("main")
            /\ UNCHANGED <<exc, exit_code>>
      [] ctx = "run_automation" ->
            \* main's `finally`, with the value or the exception pending
            /\ CallCleanup("main")
            /\ UNCHANGED <<result, exc, exit_code>>
      [] ctx = "main" ->
            /\ pc' = "exit"
            /\ cl_ctx' = "none"
            /\ exit_code' = ExitCode
            /\ UNCHANGED <<result, exc>>
      [] ctx = "caller" ->
            /\ pc' = "cl_idle"
            /\ cl_ctx' = "none"
            /\ UNCHANGED <<result, exc, exit_code>>

\* `if self.service:` stop(), errors passed; `finally: self.service = None`.
\* cleanup() returns to its caller.
CleanupService ==
    /\ pc = "cl_service"
    /\ service' = "none"
    /\ cleanups' = cleanups + 1
    /\ AfterCleanup(cl_ctx)
    /\ UNCHANGED <<inVars, driver, master_data, kode_dp_list, index, attempt,
                   success, processed_dps, stats, wfVars, obsVars,
                   start_time, end_time_sets, quit_calls, report, sigVars, locVars, clickVars, navVars,
                   ddVars>>

(***************************************************************************)
(* run_automation up to the item loop                                      *)
(***************************************************************************)
RunVarsKept == UNCHANGED <<driver, service, start_time, end_time_sets,
                           quit_calls, cleanups, report, exit_code, exc>>

\* load_master_data reads the file to its end.
LoadMasterData ==
    /\ pc = "load_master"
    /\ master_data' = load_master_data(master_file)
    /\ master_file' = {}
    /\ IF master_data' = {}
       THEN Return("false")
       ELSE pc' = "read_daily" /\ UNCHANGED <<result, cl_ctx>>
    /\ RunVarsKept
    /\ UNCHANGED <<daily_file, lines_read, seen_codes, kode_dp_list, index, attempt, success,
                   processed_dps, stats, wfVars, obsVars, sigVars, locVars, clickVars, navVars, ddVars>>

\* read_daily_input reads the file to its end.
ReadDailyInput ==
    /\ pc = "read_daily"
    /\ kode_dp_list' = read_daily_input(daily_file)
    /\ daily_file' = <<>>
    /\ IF kode_dp_list' = <<>>
       THEN Return("false")
       ELSE pc' = "login" /\ UNCHANGED <<result, cl_ctx>>
    /\ RunVarsKept
    /\ UNCHANGED <<master_file, lines_read, seen_codes, master_data, index, attempt, success,
                   processed_dps, stats, wfVars, obsVars, sigVars, locVars, clickVars, navVars, ddVars>>

Login ==
    /\ pc = "login"
    /\ \E ok \in BOOLEAN :
        /\ logged_in' = ok
        /\ IF ok
           THEN pc' = "navigate" /\ UNCHANGED <<result, cl_ctx>>
           ELSE Return("false")
    /\ RunVarsKept
    /\ UNCHANGED <<inVars, master_data, kode_dp_list, index, attempt, success,
                   processed_dps, stats, wfVars, obsVars, sigVars, locVars,
                   clickVars, last_navigation, ddVars>>

\* navigate_to_dp_menu, then processed_dps.clear() and the loop's first item.
NavigateToDpMenu ==
    /\ pc = "navigate"
    /\ \E ok \in BOOLEAN :
        /\ last_navigation' = (IF ok THEN "true" ELSE "false")
        /\ IF ok
           THEN /\ pc' = "item"
                /\ processed_dps' = {}
                /\ index' = 1
                /\ UNCHANGED <<result, cl_ctx>>
           ELSE /\ Return("false")
                /\ UNCHANGED <<processed_dps, index>>
    /\ RunVarsKept
    /\ UNCHANGED <<inVars, master_data, kode_dp_list, attempt, success,
                   stats, wfVars, obsVars, sigVars, locVars, clickVars,
                   logged_in, ddVars>>

(***************************************************************************)
(* run_automation: the item loop                                           *)
(***************************************************************************)
\* The increment, were a skip not to be counted.
BumpUnlessSkipped(counter) ==
    IF counter = "skipped" THEN stats ELSE [stats EXCEPT ![counter] = @ + 1]

Bump(counter) == [stats EXCEPT ![counter] = @ + 1]

\* The log line that goes with a counter increment names the code and, for
\* a skip, the reason.
Counted(counter, note) == Append(contrib, <<counter, kode_dp_value, note>>)

\* "(processed)" or "(not in master)" in the SKIP line.
SkipReason(code) ==
    IF code \in processed_dps THEN "processed" ELSE "not in master"

ResetWorkflowLocals ==
    /\ filter_attempt' = 0
    /\ v_attempt' = 0
    /\ validation_status' = "none"
    /\ result_dp_text' = <<>>
    /\ wf_ret' = "none"
    /\ wf_clicks' = 0
    /\ wf_validations' = 0
    /\ wf_actions' = <<>>

\* The head of the loop body, were the lookup test missing.
SkipsItemIgnoringMaster(code) == code \in processed_dps

\* The two `continue` branches at the head of the loop body.
SkipsItem(code) == code \in processed_dps \/ code \notin master_data

SkipItem ==
    /\ pc = "item"
    /\ index <= Len(kode_dp_list)
    /\ SkipsItem(kode_dp_value)
    /\ stats' = Bump("skipped")
    /\ contrib' = Counted("skipped", SkipReason(kode_dp_value))
    /\ index' = index + 1
    /\ UNCHANGED <<inVars, pc, driver, master_data, kode_dp_list, attempt,
                   success, processed_dps, result, wfVars, item_trace,
                   wf_clicks, wf_validations, wf_true, no_data_codes,
                   wf_actions, ddVars, lifeVars, sigVars, locVars, clickVars, navVars>>

StartItem ==
    /\ pc = "item"
    /\ index <= Len(kode_dp_list)
    /\ ~SkipsItem(kode_dp_value)
    /\ success' = FALSE
    /\ attempt' = 0
    /\ pc' = "attempt"
    /\ UNCHANGED <<inVars, driver, master_data, kode_dp_list, index,
                   processed_dps, stats, result, wfVars, obsVars,
                   ddVars, lifeVars, sigVars, locVars, clickVars, navVars>>

\* `for attempt in range(MAX_RETRIES)`: the call of process_ticket_creation.
InvokeWorkflow ==
    /\ pc = "attempt"
    /\ attempt < MAX_RETRIES
    /\ pc' = "wf_city"
    /\ item_trace' = Append(item_trace, "wf")
    /\ UNCHANGED <<inVars, driver, master_data, kode_dp_list, index, attempt,
                   success, processed_dps, stats, result, wfVars, wf_clicks,
                   wf_validations, contrib, wf_true, no_data_codes,
                   wf_actions, ddVars, lifeVars, sigVars, locVars, clickVars, navVars>>

\* The attempt loop runs out: range(MAX_RETRIES) is exhausted.
AttemptsExhausted ==
    /\ pc = "attempt"
    /\ attempt >= MAX_RETRIES
    /\ pc' = "conclude"
    /\ UNCHANGED <<inVars, driver, master_data, kode_dp_list, index, attempt,
                   success, processed_dps, stats, result, wfVars, obsVars,
                   ddVars, lifeVars, sigVars, locVars, clickVars, navVars>>

\* The test, were the last attempt not excepted.
RefreshesAfterEveryFailure(failed_attempt) == failed_attempt < MAX_RETRIES

\* `if attempt < config.MAX_RETRIES - 1`: a failed attempt that is not the
\* last one is followed by refresh + re-navigation.
RefreshesAfter(failed_attempt) == failed_attempt < MAX_RETRIES - 1

\* The attempt loop when process_ticket_creation returned True, were the
\* `break` missing.
NextAfterWorkflowWithoutBreak(returned) ==
    IF returned = "true"
    THEN [pc |-> "attempt", attempt |-> attempt + 1, success |-> TRUE]
    ELSE IF RefreshesAfter(attempt)
    THEN [pc |-> "refresh", attempt |-> attempt, success |-> success]
    ELSE [pc |-> "attempt", attempt |-> attempt + 1, success |-> success]

\* What the attempt loop does with the value process_ticket_creation returned.
NextAfterWorkflow(returned) ==
    IF returned = "true"
    THEN [pc |-> "conclude", attempt |-> attempt, success |-> TRUE]
    ELSE IF RefreshesAfter(attempt)
    THEN [pc |-> "refresh", attempt |-> attempt, success |-> success]
    ELSE [pc |-> "attempt", attempt |-> attempt + 1, success |-> success]

AfterWorkflow ==
    /\ pc = "wf_returned"
    /\ LET next == NextAfterWorkflow(wf_ret) IN
        /\ pc' = next.pc
        /\ attempt' = next.attempt
        /\ success' = next.success
    /\ ResetWorkflowLocals
    /\ UNCHANGED <<inVars, driver, master_data, kode_dp_list, index,
                   processed_dps, stats, result, item_trace, contrib, wf_true,
                   no_data_codes, ddVars, lifeVars, sigVars, locVars, clickVars, navVars>>

\* The attempt loop after a refresh, were `if not ...: break` missing.
NextAfterRefreshWithoutBreak(navigated) ==
    [pc |-> "attempt", attempt |-> attempt + 1]

\* `if not self.handle_page_refresh_and_navigation(): break`
NextAfterRefresh(navigated) ==
    IF navigated
    THEN [pc |-> "attempt", attempt |-> attempt + 1]
    ELSE [pc |-> "conclude", attempt |-> attempt]

\* handle_page_refresh_and_navigation between two attempts.
RefreshAndNavigate ==
    /\ pc = "refresh"
    /\ \E ok \in BOOLEAN :
        /\ last_navigation' = (IF ok THEN "true" ELSE "false")
        /\ item_trace' =
              Append(item_trace, IF ok THEN "refresh_true" ELSE "refresh_false")
        /\ pc' = NextAfterRefresh(ok).pc
        /\ attempt' = NextAfterRefresh(ok).attempt
    /\ UNCHANGED <<inVars, driver, master_data, kode_dp_list, index, success,
                   processed_dps, stats, result, wfVars, wf_clicks,
                   wf_validations, contrib, wf_true, no_data_codes,
                   wf_actions, ddVars, lifeVars, sigVars, locVars, clickVars,
                   logged_in>>

Count(trace, event) == Cardinality({ i \in DOMAIN trace : trace[i] = event })

\* The counters after an item, were a failure counted once per attempt.
StatsAfterItemPerAttempt(succeeded) ==
    IF succeeded
    THEN Bump("successful")
    ELSE [stats EXCEPT !.failed = @ + Count(item_trace, "wf_false")]

\* `self.stats['successful'] += 1` or `self.stats['failed'] += 1`
StatsAfterItem(succeeded) ==
    IF succeeded THEN Bump("successful") ELSE Bump("failed")

\* The processed set after a success, were it assigned instead of added to.
MarkProcessedReplacing(code) == {code}

\* `self.processed_dps.add(kode_dp_value)`
MarkProcessed(code) == processed_dps \cup {code}

\* `if success: ... else: ...` after the attempt loop, then the next item.
ConcludeItem ==
    /\ pc = "conclude"
    /\ stats' = StatsAfterItem(success)
    /\ IF success
       THEN /\ processed_dps' = MarkProcessed(kode_dp_value)
            /\ contrib' = Counted("successful", "")
       ELSE /\ contrib' = Counted("failed", "")
            /\ UNCHANGED processed_dps
    /\ item_trace' = <<>>
    /\ index' = index + 1
    /\ pc' = "item"
    /\ UNCHANGED <<inVars, driver, master_data, kode_dp_list, attempt,
                   success, result, wfVars, wf_clicks, wf_validations,
                   wf_true, no_data_codes, wf_actions, ddVars, lifeVars,
                   sigVars, locVars, clickVars, navVars>>

\* The loop is over: generate_final_report(total_items), which sets
\* stats['end_time'] and logs the summary; return True.
FinishRun ==
    /\ pc = "item"
    /\ index > Len(kode_dp_list)
    /\ end_time_sets' = end_time_sets + 1
    /\ report' = TRUE
    /\ Return("true")
    /\ UNCHANGED <<inVars, driver, master_data, kode_dp_list, index, attempt,
                   success, processed_dps, stats, wfVars, obsVars, service,
                   start_time, quit_calls, cleanups, exit_code, exc, sigVars, locVars, clickVars, navVars,
                   ddVars>>

(***************************************************************************)
(* process_ticket_creation                                                 *)
(***************************************************************************)
\* `return <value>` of process_ticket_creation.
WorkflowReturns(value) ==
    /\ pc' = "wf_returned"
    /\ wf_ret' = (IF value THEN "true" ELSE "false")
    /\ item_trace' = Append(item_trace, IF value THEN "wf_true" ELSE "wf_false")
    /\ wf_true' = IF value THEN wf_true \cup {kode_dp_value} ELSE wf_true

\* The UI action a position of process_ticket_creation performs.
UiAction(here) ==
    CASE here = "wf_city" -> "city"
      [] here = "wf_rk" -> "rk"
      [] here = "wf_dp" -> "dp"
      [] here = "wf_filter_button" -> "filter_button"
      [] here = "wf_filter" -> "filter"
      [] here = "wf_validate" -> "validate"
      [] here = "wf_create_icon" -> "create_ticket_icon"
      [] here = "wf_final_create" -> "final_create"
      [] here = "wf_confirm" -> "confirm"

\* The action at `here` was performed and succeeded or failed.
Acted(here, ok) == wf_actions' = Append(wf_actions, <<UiAction(here), ok>>)

\* A step, were its failure not to end process_ticket_creation.
WorkflowStepCarryingOn(here, next) ==
    /\ pc = here
    /\ \E ok \in BOOLEAN :
        /\ Acted(here, ok)
        /\ pc' = next
        /\ UNCHANGED <<wf_ret, item_trace, wf_true>>
    /\ UNCHANGED <<inVars, driver, master_data, kode_dp_list, index, attempt,
                   success, processed_dps, stats, result, filter_attempt,
                   v_attempt, validation_status, result_dp_text, wf_clicks,
                   wf_validations,
                   contrib, no_data_codes, ddVars, lifeVars, sigVars, locVars, clickVars, navVars>>

\* One of the steps that either succeed and lead to the next step or make
\* process_ticket_creation return False.
WorkflowStep(here, next) ==
    /\ pc = here
    /\ \E ok \in BOOLEAN :
        /\ Acted(here, ok)
        /\ IF ok
           THEN /\ pc' = next
                /\ UNCHANGED <<wf_ret, item_trace, wf_true>>
           ELSE WorkflowReturns(FALSE)
    /\ UNCHANGED <<inVars, driver, master_data, kode_dp_list, index, attempt,
                   success, processed_dps, stats, result, filter_attempt,
                   v_attempt, validation_status, result_dp_text, wf_clicks,
                   wf_validations,
                   contrib, no_data_codes, ddVars, lifeVars, sigVars, locVars, clickVars, navVars>>

\* handle_vue_select_dropdown(city_input, city)
FillCity == WorkflowStep("wf_city", "wf_rk")

\* handle_vue_select_dropdown(rk_input, rk)
FillRk == WorkflowStep("wf_rk", "wf_dp")

\* handle_vue_select_dropdown(dp_input, kode_dp_value)
FillDp == WorkflowStep("wf_dp", "wf_filter_button")

\* wait_for_element(filter_button); the filter loop starts at filter_attempt 0
FindFilterButton == WorkflowStep("wf_filter_button", "wf_filter")

\* The filter loop, were it never to run out of attempts.
FilterLoopNeverOver(attempts) == attempts < 0

\* `for filter_attempt in range(3)` has used up its passes.
FilterLoopOver(attempts) == attempts >= FILTER_ATTEMPTS

\* One pass of `for filter_attempt in range(3)` up to the validation:
\* safe_click on the filter button; a failed click is `continue`.
ClickFilter ==
    /\ pc = "wf_filter"
    /\ ~FilterLoopOver(filter_attempt)
    /\ \E clicked \in BOOLEAN :
        /\ Acted("wf_filter", clicked)
        /\ IF clicked
           THEN /\ wf_clicks' = wf_clicks + 1
                /\ v_attempt' = 0
                /\ pc' = "wf_validate"
                /\ UNCHANGED filter_attempt
           ELSE /\ filter_attempt' = filter_attempt + 1
                /\ UNCHANGED <<wf_clicks, v_attempt, pc>>
    /\ UNCHANGED <<inVars, driver, master_data, kode_dp_list, index, attempt,
                   success, processed_dps, stats, result, validation_status,
                   result_dp_text, wf_ret, item_trace, wf_validations, contrib,
                   wf_true,
                   no_data_codes, ddVars, lifeVars, sigVars, locVars, clickVars, navVars>>

\* The filter loop ran out without a MATCH: `if not validation_passed`.
FilterLoopExhausted ==
    /\ pc = "wf_filter"
    /\ FilterLoopOver(filter_attempt)
    /\ WorkflowReturns(FALSE)
    /\ UNCHANGED wf_actions
    /\ UNCHANGED <<inVars, driver, master_data, kode_dp_list, index, attempt,
                   success, processed_dps, stats, result, filter_attempt,
                   v_attempt, validation_status, result_dp_text, wf_clicks,
                   wf_validations,
                   contrib, no_data_codes, ddVars, lifeVars, sigVars, locVars, clickVars, navVars>>

(***************************************************************************)
(* validate_filter_result                                                  *)
(***************************************************************************)
\* What the page shows when one validation attempt looks at it: the no-data
\* indicator, a first result row with the text of its code cell, or neither
\* (no row rendered within the timeout, or the read raised).
NoDataShown == <<"no_data", <<>>>>
NothingShown == <<"nothing", <<>>>>
RowShown(text) == <<"row", text>>
CellTexts == { DP001, DP002, <<" ">> \o DP001 }
Pages == {NoDataShown, NothingShown} \cup { RowShown(text) : text \in CellTexts }

\* The comparison, were it to accept any rendered row.
CompareCellAcceptingAnyRow(text, expected_kode_dp) == "MATCH"

\* `if result_dp_text == expected_kode_dp`
CompareCell(text, expected_kode_dp) ==
    IF text = expected_kode_dp THEN "MATCH" ELSE "MISMATCH"

\* One pass of the loop body: a status, or "again" when nothing was decided.
ValidateOnce(page, expected_kode_dp) ==
    IF page = NoDataShown THEN "NO_DATA"
    ELSE IF page[1] = "row" THEN CompareCell(Strip(page[2]), expected_kode_dp)
    ELSE "again"

\* One pass of `for attempt in range(max_attempts)` of validate_filter_result;
\* the pass that decides returns the status to process_ticket_creation.
ValidateAttempt ==
    /\ pc = "wf_validate"
    /\ \E page \in Pages :
        LET status == ValidateOnce(page, kode_dp_value) IN
        IF status = "again" /\ v_attempt < VALIDATE_ATTEMPTS - 1
        THEN /\ v_attempt' = v_attempt + 1
             /\ UNCHANGED <<pc, validation_status, result_dp_text,
                            wf_validations, no_data_codes, wf_actions>>
        ELSE /\ validation_status' =
                    (IF status = "again" THEN "VALIDATION_FAILED" ELSE status)
             /\ result_dp_text' = (IF page[1] = "row" THEN Strip(page[2]) ELSE <<>>)
             /\ wf_validations' = wf_validations + 1
             /\ no_data_codes' = IF status = "NO_DATA"
                                 THEN no_data_codes \cup {kode_dp_value}
                                 ELSE no_data_codes
             /\ Acted("wf_validate", status = "MATCH")
             /\ pc' = "wf_validated"
             /\ UNCHANGED v_attempt
    /\ UNCHANGED <<inVars, driver, master_data, kode_dp_list, index, attempt,
                   success, processed_dps, stats, result, filter_attempt,
                   wf_ret, item_trace, wf_clicks, contrib, wf_true,
                   ddVars, lifeVars, sigVars, locVars, clickVars, navVars>>

\* The branch, were a mismatch to be let through to the ticket modal.
NextAfterValidationPassingMismatch(status) ==
    IF status = "NO_DATA" THEN "return"
    ELSE IF status \in {"MATCH", "MISMATCH"} THEN "modal"
    ELSE "refilter"

\* The branch on validation_status inside the filter loop:
\* NO_DATA returns False, MATCH breaks out, anything else is `continue`.
NextAfterValidation(status) ==
    IF status = "NO_DATA" THEN "return"
    ELSE IF status = "MATCH" THEN "modal"
    ELSE "refilter"

AfterValidation ==
    /\ pc = "wf_validated"
    /\ UNCHANGED wf_actions
    /\ LET next == NextAfterValidation(validation_status) IN
        IF next = "return"
        THEN /\ WorkflowReturns(FALSE)
             /\ UNCHANGED filter_attempt
        ELSE IF next = "modal"
        THEN /\ pc' = "wf_create_icon"
             /\ UNCHANGED <<filter_attempt, wf_ret, item_trace, wf_true>>
        ELSE /\ filter_attempt' = filter_attempt + 1
             /\ pc' = "wf_filter"
             /\ UNCHANGED <<wf_ret, item_trace, wf_true>>
    /\ UNCHANGED <<inVars, driver, master_data, kode_dp_list, index, attempt,
                   success, processed_dps, stats, result, v_attempt,
                   validation_status, result_dp_text, wf_clicks,
                   wf_validations, contrib, no_data_codes,
                   ddVars, lifeVars, sigVars, locVars, clickVars, navVars>>

\* wait_for_element + safe_click on the create-ticket icon of the first row
ClickCreateTicketIcon == WorkflowStep("wf_create_icon", "wf_final_create")

\* wait_for_element + safe_click on the modal's create button
ClickFinalCreate == WorkflowStep("wf_final_create", "wf_confirm")

\* wait_for_element + safe_click on the confirmation dialog; `return True`
ClickConfirm ==
    /\ pc = "wf_confirm"
    /\ \E ok \in BOOLEAN : Acted("wf_confirm", ok) /\ WorkflowReturns(ok)
    /\ UNCHANGED <<inVars, driver, master_data, kode_dp_list, index, attempt,
                   success, processed_dps, stats, result, filter_attempt,
                   v_attempt, validation_status, result_dp_text, wf_clicks,
                   wf_validations,
                   contrib, no_data_codes, ddVars, lifeVars, sigVars, locVars, clickVars, navVars>>

(***************************************************************************)
(* The run of main()                                                       *)
(***************************************************************************)
Next ==
    \/ CreateDriver
    \/ Initialize
    \/ CleanupBegin
    \/ CleanupDriver
    \/ CleanupService
    \/ LoadMasterData
    \/ ReadDailyInput
    \/ Login
    \/ NavigateToDpMenu
    \/ SkipItem
    \/ StartItem
    \/ InvokeWorkflow
    \/ AttemptsExhausted
    \/ FillCity
    \/ FillRk
    \/ FillDp
    \/ FindFilterButton
    \/ ClickFilter
    \/ FilterLoopExhausted
    \/ ValidateAttempt
    \/ AfterValidation
    \/ ClickCreateTicketIcon
    \/ ClickFinalCreate
    \/ ClickConfirm
    \/ AfterWorkflow
    \/ RefreshAndNavigate
    \/ ConcludeItem
    \/ FinishRun

Spec == Init /\ [][Next]_vars

\* `total_items = len(kode_dp_list)`: the total the progress lines and the
\* final summary report.
total_items == Len(kode_dp_list)

\* One run on given files: the lookup file has rows for DP001 and DP002, the
\* daily file lists DP001, DP003 and DP001 again.
InitScenario ==
    /\ master_file = { row \in MasterRows : row.Kode_DP \in {DP001, DP002} }
    /\ daily_file = <<DP001, DP003, DP001>>
    /\ IdleRead
    /\ pc = "main"
    /\ IdleRun
    /\ IdleDropdown
    /\ IdleLocate
    /\ IdleClick

SpecScenario == InitScenario /\ [][Next]_vars

(***************************************************************************)
(* signal_handler: SIGINT / SIGTERM delivered while main() runs            *)
(*                                                                         *)
(* The handler calls sys.exit(0), which raises SystemExit in the statement *)
(* the thread is executing.  `except Exception` and `except                *)
(* KeyboardInterrupt` do not catch SystemExit; a bare `except:` does.      *)
(***************************************************************************)
\* Positions whose step spends its time inside a try with a bare `except:`
\* (wait_for_element, safe_click, wait_for_page_load, the dropdown's inner
\* blocks, validate_filter_result's no-data probe, login's sidebar wait).
\* The two bare excepts of load_master_data enclose the parsing of one row
\* and of the delimiter only and are left out.
BareExceptPcs ==
    {"login", "navigate", "refresh", "wf_city", "wf_rk", "wf_dp",
     "wf_filter_button", "wf_filter", "wf_validate", "wf_create_icon",
     "wf_final_create", "wf_confirm"}

\* Positions inside run_automation's try ... finally.
RunAutomationPcs ==
    {"load_master", "read_daily", "login", "navigate", "item", "attempt",
     "conclude", "refresh", "wf_returned", "wf_validated", "wf_city", "wf_rk",
     "wf_dp", "wf_filter_button", "wf_filter", "wf_validate",
     "wf_create_icon", "wf_final_create", "wf_confirm"}

CleanupPcs == {"cl_begin", "cl_driver", "cl_service"}

\* The signal lands inside a bare `except:`: in one of the primitives, or in
\* cleanup inside quit() / close() / stop().
InBareExcept ==
    \/ pc \in BareExceptPcs
    \/ pc = "cl_driver" /\ driver = "open"
    \/ pc = "cl_service" /\ service = "held"

\* Where the thread is when a signal arrives: between two items of the
\* loop, inside the processing of an item, in cleanup(), or before the loop.
Phase ==
    IF pc = "item" THEN "boundary"
    ELSE IF pc \in CleanupPcs THEN "cleanup"
    ELSE IF pc \in RunAutomationPcs /\ index >= 1 THEN "in_item"
    ELSE "startup"

\* The record of a delivery: where it arrived, the item the loop was at
\* (index - 1 items had been counted), and what became of the SystemExit.
Delivered(acted) ==
    sig_log' = Append(sig_log, [at |-> Phase, index |-> index,
                                acted |-> acted])

\* SystemExit is caught by the bare `except:` around the statement it was
\* raised in: the primitive goes on with its failure branch (the next
\* selector, the next click attempt, close() after quit()), whose outcome is
\* the browser's to decide, and nothing of the signal is left.
SignalSwallowed ==
    /\ Len(sig_log) < MaxSignals
    /\ InBareExcept
    /\ Delivered("swallowed")
    /\ UNCHANGED <<inVars, runVars, wfVars, obsVars, lifeVars, ddVars,
                   locVars, clickVars, navVars>>

\* SystemExit leaves every frame up to the nearest `finally`:
\* run_automation's, else main's; out of main's own `finally` it ends the
\* process with the code of sys.exit(0).  The locals of the frames it
\* leaves are gone.
SignalRaised ==
    /\ Len(sig_log) < MaxSignals
    /\ pc \in RunAutomationPcs \cup CleanupPcs \cup {"main", "cd_config"}
    /\ Delivered("raised")
    /\ exc' = "SystemExit"
    /\ IF pc \in RunAutomationPcs
       THEN CallCleanup("run_automation") /\ UNCHANGED exit_code
       ELSE IF pc \in CleanupPcs /\ cl_ctx = "main"
       THEN /\ pc' = "exit"
            /\ cl_ctx' = "none"
            /\ exit_code' = 0
       ELSE CallCleanup("main") /\ UNCHANGED exit_code
    /\ ResetWorkflowLocals
    /\ attempt' = 0
    /\ success' = FALSE
    /\ item_trace' = <<>>
    /\ UNCHANGED <<inVars, driver, master_data, kode_dp_list, index,
                   processed_dps, stats, result, contrib, wf_true,
                   no_data_codes, service, start_time, end_time_sets,
                   quit_calls, cleanups, report, ddVars, locVars, clickVars, navVars>>

\* The runs of main() with signals: the whole lookup file and a short daily
\* list.
InitSignal ==
    /\ master_file = MasterRows
    /\ daily_file \in SeqsUpTo({DP001, DP002, DP003}, MaxSignalLines)
    /\ IdleRead
    /\ pc = "main"
    /\ IdleRun
    /\ IdleDropdown
    /\ IdleLocate
    /\ IdleClick

NextSignal ==
    \/ Next
    \/ SignalSwallowed
    \/ SignalRaised

SpecSignal == InitSignal /\ [][NextSignal]_vars

(***************************************************************************)
(* ElementHelper.handle_vue_select_dropdown, driven on its own: the value  *)
(* is typed into the input and an option of the rendered list is chosen.   *)
(***************************************************************************)
ABC == <<"A", "B", "C">>
ABCD == <<"A", "B", "C", "D">>
OptionTexts == { ABC, ABCD, <<" ">> \o ABC, <<"Z">> }
DropdownValues == { ABC, <<"A", "B">> }

RECURSIVE CollapseSpaces(_)
CollapseSpaces(s) ==
    IF Len(s) < 2 THEN s
    ELSE IF IsSpace(s[1]) /\ IsSpace(s[2]) THEN CollapseSpaces(Tail(s))
    ELSE <<Head(s)>> \o CollapseSpaces(Tail(s))

\* XPath normalize-space(): trimmed, runs of white space collapsed.
NormalizeSpace(s) == CollapseSpaces(Strip(s))

\* XPath contains(text, value)
Contains(text, value) ==
    \E i \in 1..(Len(text) - Len(value) + 1) :
        SubSeq(text, i, i + Len(value) - 1) = value

\* //li[normalize-space()='<value>']
ExactMatch(text, value) == NormalizeSpace(text) = value

\* //li[contains(normalize-space(), '<value>')]
ContainsMatch(text, value) == Contains(NormalizeSpace(text), value)

\* The look-ups, were their XPaths to hold no condition on the text.
MatchesAnyOption(branch, text, value) ==
    branch \in {"exact", "contains"}

\* The XPath of branch (a) "exact" or (b) "contains", applied to one option.
Matches(branch, text, value) ==
    IF branch = "exact" THEN ExactMatch(text, value) ELSE ContainsMatch(text, value)

\* The element a locator resolves to: the first match in document order
\* (0 when no option matches).
FirstMatch(branch) ==
    LET hits == { i \in DOMAIN dd_options : Matches(branch, dd_options[i], dd_value) }
    IN  IF hits = {} THEN 0 ELSE CHOOSE i \in hits : \A j \in hits : i <= j

InitDropdown ==
    /\ master_file = {}
    /\ daily_file = <<>>
    /\ IdleRead
    /\ pc = "dropdown"
    /\ IdleRun
    /\ IdleLocate
    /\ IdleClick
    /\ dd_options \in SeqsUpTo(OptionTexts, MaxOptions)
    /\ dd_value \in DropdownValues
    /\ dd_pc = "resolve"
    /\ dd_attempt = 0
    /\ dd_selected = <<>>
    /\ dd_via = "none"
    /\ dd_ret = "none"

\* The end of an attempt, were it not to use up one of the retries.
DdNextAttemptUncounted ==
    /\ dd_attempt' = dd_attempt
    /\ dd_pc' = "resolve"

\* `continue`, or the end of the loop body: the next attempt.
DdNextAttempt ==
    /\ dd_attempt' = dd_attempt + 1
    /\ dd_pc' = "resolve"

\* `return True` after an option was clicked or confirmed.
DdSelect(text, via) ==
    /\ dd_selected' = Append(dd_selected, text)
    /\ dd_via' = via
    /\ dd_ret' = "true"
    /\ dd_pc' = "done"

\* input_field = wait_for_element(input_selectors); `continue` when not found
DdResolveInput ==
    /\ dd_pc = "resolve"
    /\ dd_attempt < DROPDOWN_RETRIES
    /\ \E found \in BOOLEAN :
        IF found
        THEN dd_pc' = "type" /\ UNCHANGED dd_attempt
        ELSE DdNextAttempt
    /\ UNCHANGED <<inVars, runVars, wfVars, obsVars,
                   lifeVars, sigVars, locVars, clickVars, navVars, dd_options, dd_value,
                   dd_selected, dd_via, dd_ret>>

\* range(max_retries) is exhausted: `return False`
DdExhausted ==
    /\ dd_pc = "resolve"
    /\ dd_attempt >= DROPDOWN_RETRIES
    /\ dd_ret' = "false"
    /\ dd_pc' = "done"
    /\ UNCHANGED <<inVars, runVars, wfVars, obsVars,
                   lifeVars, sigVars, locVars, clickVars, navVars, dd_options, dd_value,
                   dd_attempt, dd_selected, dd_via>>

\* Scroll, click, clear and type the value; an error here is caught by the
\* outer `except Exception`, which ends the attempt.
DdTypeValue ==
    /\ dd_pc = "type"
    /\ \E typed \in BOOLEAN :
        IF typed
        THEN dd_pc' = "exact" /\ UNCHANGED dd_attempt
        ELSE DdNextAttempt
    /\ UNCHANGED <<inVars, runVars, wfVars, obsVars,
                   lifeVars, sigVars, locVars, clickVars, navVars, dd_options, dd_value,
                   dd_selected, dd_via, dd_ret>>

\* One of the two option look-ups: wait_for_element on the XPath, then
\* safe_click on the element found.  The wait can time out although an
\* option matches (not rendered or not clickable in time), and the click
\* can fail; either way the code falls through to the next branch.
DdTryOption(branch, next) ==
    /\ dd_pc = branch
    /\ \E outcome \in {"clicked", "click_failed", "not_found"} :
        LET option == FirstMatch(branch) IN
        /\ outcome # "not_found" => option # 0
        /\ IF outcome = "clicked"
           THEN DdSelect(dd_options[option], branch)
           ELSE dd_pc' = next /\ UNCHANGED <<dd_selected, dd_via, dd_ret>>
    /\ UNCHANGED <<inVars, runVars, wfVars, obsVars,
                   lifeVars, sigVars, locVars, clickVars, navVars, dd_options, dd_value,
                   dd_attempt>>

\* (a) the option whose whole text is the value
DdExactMatch == DdTryOption("exact", "contains")

\* (b) the first option whose text contains the value
DdContainsMatch == DdTryOption("contains", "keyboard")

\* (c) ARROW_DOWN then ENTER, `return True`: the widget selects whichever
\* option it has highlighted, if any; an error sending the keys is passed.
DdKeyboardConfirm ==
    /\ dd_pc = "keyboard"
    /\ \/ \E highlighted \in DOMAIN dd_options :
             DdSelect(dd_options[highlighted], "keyboard")
       \/ /\ dd_via' = "keyboard"
          /\ dd_ret' = "true"
          /\ dd_pc' = "done"
          /\ UNCHANGED dd_selected
       \/ /\ dd_pc' = "escape"
          /\ UNCHANGED <<dd_selected, dd_via, dd_ret>>
    /\ UNCHANGED <<inVars, runVars, wfVars, obsVars,
                   lifeVars, sigVars, locVars, clickVars, navVars, dd_options, dd_value,
                   dd_attempt>>

\* send_keys(ESCAPE) closes the list; the attempt is over.
DdEscape ==
    /\ dd_pc = "escape"
    /\ DdNextAttempt
    /\ UNCHANGED <<inVars, runVars, wfVars, obsVars,
                   lifeVars, sigVars, locVars, clickVars, navVars, dd_options, dd_value,
                   dd_selected, dd_via, dd_ret>>

NextDropdown ==
    \/ DdResolveInput
    \/ DdExhausted
    \/ DdTypeValue
    \/ DdExactMatch
    \/ DdContainsMatch
    \/ DdKeyboardConfirm
    \/ DdEscape

SpecDropdown == InitDropdown /\ [][NextDropdown]_vars

(***************************************************************************)
(* Properties of the run controller                                        *)
(***************************************************************************)
Last(trace) == trace[Len(trace)]

Range(list) == { list[i] : i \in DOMAIN list }

\* The item loop has been entered (processed_dps.clear() has run).
InItemLoop == pc \notin {"main", "load_master", "read_daily", "login", "navigate", "exit"}

\* An item is being worked on: kode_dp_value is bound.
AtItem == InItemLoop /\ index \in DOMAIN kode_dp_list

\* The step calls process_ticket_creation.
InvokesWorkflow == item_trace' = Append(item_trace, "wf")

\* C1: every code of the daily list has contributed to at most one of the
\* counters successful, failed, skipped, and to that one at most once; the
\* counters are exactly the contributions recorded.
C1_CountedAtMostOnce ==
    /\ \A i, j \in DOMAIN contrib : contrib[i][2] = contrib[j][2] => i = j
    /\ \A i \in DOMAIN contrib : contrib[i][2] \in Range(kode_dp_list)
    /\ \A counter \in {"successful", "failed", "skipped"} :
          stats[counter] = Cardinality({ i \in DOMAIN contrib : contrib[i][1] = counter })

C1_Witness ==
    /\ pc = "exit"
    /\ stats = [successful |-> 1, failed |-> 1, skipped |-> 1]

\* C2: processed_dps holds only codes that are keys of the lookup table and
\* members of the daily list, and no step of the item loop removes a code
\* from it.
C2_ProcessedSubsetAndGrowing ==
    /\ [](processed_dps \subseteq (master_data \cap Range(kode_dp_list)))
    /\ [][InItemLoop => processed_dps \subseteq processed_dps']_vars

C2_Witness ==
    /\ pc = "item"
    /\ Cardinality(processed_dps) = 2

\* C3: process_ticket_creation is called for a code only when the code is a
\* lookup key and not in processed_dps; for any other code the item does
\* nothing but add one to skipped and move to the next item.
C3_WorkflowOnlyForUnprocessedLookupCodes ==
    [][ /\ InvokesWorkflow =>
              kode_dp_value \in master_data /\ kode_dp_value \notin processed_dps
        /\ ( /\ pc = "item"
             /\ index \in DOMAIN kode_dp_list
             /\ (kode_dp_value \notin master_data \/ kode_dp_value \in processed_dps) )
           => /\ stats' = [stats EXCEPT !.skipped = @ + 1]
              /\ index' = index + 1
              /\ pc' = "item"
              /\ UNCHANGED <<processed_dps, item_trace, wf_clicks, wf_true, wfVars>>
      ]_vars

C3_Witness ==
    /\ stats.skipped = 1
    /\ pc = "wf_city"
    /\ index = 2

\* C4: when process_ticket_creation has failed MAX_RETRIES times for a code,
\* failed grows by exactly one for the item (nothing is counted while the
\* attempts run), successful and processed_dps stay as they are, and the
\* loop goes on with the next code.
C4_ExhaustedRetriesCountOneFailure ==
    [][ /\ (AtItem /\ pc # "item" /\ pc # "conclude") => UNCHANGED <<stats, processed_dps>>
        /\ (pc = "conclude" /\ Count(item_trace, "wf_false") = MAX_RETRIES)
           => /\ stats' = [stats EXCEPT !.failed = @ + 1]
              /\ processed_dps' = processed_dps
              /\ pc' = "item"
              /\ index' = index + 1
              /\ result' = "none"
      ]_vars

C4_Witness ==
    /\ pc = "item"
    /\ index = 2
    /\ Len(kode_dp_list) >= 2
    /\ stats = [successful |-> 0, failed |-> 1, skipped |-> 0]
    /\ attempt = MAX_RETRIES

IsRefresh(event) == event \in {"refresh_true", "refresh_false"}

\* C5: per item, process_ticket_creation is called at most MAX_RETRIES times;
\* a refresh follows every failed attempt but the last and nothing else;
\* between two consecutive calls there is exactly one refresh; at most
\* MAX_RETRIES - 1 refreshes are made.
C5_RefreshBetweenAttempts ==
    LET t == item_trace
        calls == { i \in DOMAIN t : t[i] = "wf" }
        refreshes == { i \in DOMAIN t : IsRefresh(t[i]) }
    IN  /\ Cardinality(calls) <= MAX_RETRIES
        /\ Cardinality(refreshes) <= MAX_RETRIES - 1
        /\ \A i \in refreshes : i > 1 /\ t[i - 1] = "wf_false"
        /\ \A i, j \in calls :
              (i < j /\ \A k \in calls : ~(i < k /\ k < j))
              => Cardinality({ r \in refreshes : i < r /\ r < j }) = 1
        /\ \A i \in DOMAIN t :
              (t[i] = "wf_false" /\ Cardinality({ c \in calls : c < i }) < MAX_RETRIES)
              => IF i < Len(t) THEN IsRefresh(t[i + 1]) ELSE pc \in {"wf_returned", "refresh"}

C5_Witness ==
    /\ pc = "conclude"
    /\ Count(item_trace, "wf") = MAX_RETRIES
    /\ Count(item_trace, "refresh_true") = MAX_RETRIES - 1

\* C6: when the refresh between two attempts fails, process_ticket_creation
\* is not called again for the item, whatever is left of the retry budget,
\* and the item is counted as failed, once.
C6_FailedRefreshEndsItem ==
    [][ /\ (item_trace # <<>> /\ Last(item_trace) = "refresh_false")
           => /\ ~InvokesWorkflow
              /\ pc = "conclude"
              /\ ~success
              /\ stats' = [stats EXCEPT !.failed = @ + 1]
              /\ contrib' = Append(contrib, <<"failed", kode_dp_value, "">>)
              /\ index' = index + 1
        /\ \A i \in DOMAIN item_trace' :
              item_trace'[i] = "refresh_false" => i = Len(item_trace')
      ]_vars

C6_Witness ==
    /\ pc = "conclude"
    /\ item_trace = <<"wf", "wf_false", "refresh_false">>
    /\ attempt = 0

\* C7: the first successful attempt for a code ends the attempts: the code
\* is added to processed_dps and successful grows by one, and
\* process_ticket_creation is not called for that code again in the run;
\* a code is in processed_dps only if one of its attempts returned True.
C7_FirstSuccessIsFinal ==
    /\ [](processed_dps \subseteq wf_true)
    /\ [][ /\ InvokesWorkflow => kode_dp_value \notin wf_true
           /\ (pc = "wf_returned" /\ wf_ret = "true")
              => pc' = "conclude" /\ success' /\ item_trace' = item_trace
           /\ (pc = "conclude" /\ success)
              => /\ kode_dp_value \in wf_true
                 /\ processed_dps' = processed_dps \cup {kode_dp_value}
                 /\ kode_dp_value \notin processed_dps
                 /\ stats' = [stats EXCEPT !.successful = @ + 1]
         ]_vars

C7_Witness ==
    /\ pc = "wf_city"
    /\ index = 2
    /\ processed_dps = {kode_dp_list[1]}
    /\ stats.successful = 1

(***************************************************************************)
(* Properties of the workflow                                              *)
(***************************************************************************)
\* C8: once validation has reported NO_DATA for a code, the workflow is not
\* run again for that code and the filter is not clicked again for it, and
\* the item is counted as failed.
C8_NoDataIsTerminalForItem ==
    [][ /\ (AtItem /\ kode_dp_value \in no_data_codes)
           => /\ ~InvokesWorkflow
              /\ wf_clicks' <= wf_clicks
              /\ ~success'
        /\ \A i \in DOMAIN contrib' :
              contrib'[i][2] \in no_data_codes => contrib'[i][1] = "failed"
      ]_vars

\* Within one run of process_ticket_creation NO_DATA is final: the run
\* returns False at once, with no further filter click.
C8_NoDataEndsWorkflowRun ==
    [][ (pc = "wf_validated" /\ validation_status = "NO_DATA")
        => /\ pc' = "wf_returned"
           /\ wf_ret' = "false"
           /\ wf_clicks' = wf_clicks
      ]_vars

\* C9 as stated: a MATCH leads to the ticket modal without another filter
\* click; a mismatch sends the workflow back to click the filter again; at
\* most 3 filter clicks are submitted; a mismatch at the third validation
\* ends the workflow Failed.
C9_RefilterUntilThirdValidation ==
    [][ /\ (pc = "wf_validated" /\ validation_status = "MATCH")
           => pc' = "wf_create_icon" /\ wf_clicks' = wf_clicks
        /\ (pc = "wf_validated" /\ validation_status = "MISMATCH"
              /\ wf_validations < FILTER_ATTEMPTS)
           => pc' = "wf_filter" /\ filter_attempt' < FILTER_ATTEMPTS
        /\ (pc = "wf_validated" /\ validation_status = "MISMATCH"
              /\ wf_validations = FILTER_ATTEMPTS)
           => pc' = "wf_filter" /\ filter_attempt' >= FILTER_ATTEMPTS
        /\ (pc = "wf_filter" /\ filter_attempt >= FILTER_ATTEMPTS)
           => pc' = "wf_returned" /\ wf_ret' = "false"
        /\ wf_clicks' <= FILTER_ATTEMPTS
      ]_vars

\* C9 (amended): the status is MATCH exactly when the first row's code cell
\* equals the expected code; a MATCH leads to the ticket modal without
\* another filter click; a mismatch sends the workflow back to click the
\* filter again while a filter sub-attempt is left, a failed filter click
\* using one up like a validated one; at most 3 filter clicks are submitted;
\* a mismatch on the third sub-attempt ends the workflow Failed.
C9_RefilterWhileSubAttemptsLeft ==
    [][ /\ (pc = "wf_validated" /\ validation_status = "MATCH")
           => /\ result_dp_text = kode_dp_value
              /\ pc' = "wf_create_icon"
              /\ wf_clicks' = wf_clicks
        /\ (pc = "wf_validated" /\ validation_status = "MISMATCH")
           => result_dp_text # kode_dp_value
        /\ (pc = "wf_validated" /\ validation_status = "MISMATCH"
              /\ filter_attempt < FILTER_ATTEMPTS - 1)
           => pc' = "wf_filter" /\ filter_attempt' < FILTER_ATTEMPTS
        /\ (pc = "wf_validated" /\ validation_status = "MISMATCH"
              /\ filter_attempt = FILTER_ATTEMPTS - 1)
           => pc' = "wf_filter" /\ filter_attempt' >= FILTER_ATTEMPTS
        /\ (pc = "wf_filter" /\ filter_attempt >= FILTER_ATTEMPTS)
           => pc' = "wf_returned" /\ wf_ret' = "false"
        /\ wf_clicks' <= FILTER_ATTEMPTS
        /\ wf_validations' <= wf_clicks'
      ]_vars

C9_Witness ==
    /\ pc = "wf_returned"
    /\ wf_ret = "false"
    /\ wf_clicks = 2
    /\ wf_validations = 2
    /\ filter_attempt = FILTER_ATTEMPTS
    /\ validation_status = "MISMATCH"

(***************************************************************************)
(* Properties of the dropdown driver                                       *)
(***************************************************************************)
\* C10: whenever the rendered list holds an option whose whole text is the
\* value, the driver never selects an option whose text merely contains the
\* value, also when clicking the exact option fails.
C10_ExactMatchPrecedence ==
    (\E i \in DOMAIN dd_options : ExactMatch(dd_options[i], dd_value))
    => \A k \in DOMAIN dd_selected :
          ~( /\ ContainsMatch(dd_selected[k], dd_value)
             /\ ~ExactMatch(dd_selected[k], dd_value) )

(***************************************************************************)
(* ElementHelper.wait_for_element                                          *)
(***************************************************************************)
\* What the page holds for one selector while the wait on it lasts: no
\* element; an element that is not displayed; one displayed but disabled;
\* one displayed and enabled; one that is found and then detached, so that
\* is_displayed() raises StaleElementReferenceException.
ElementStates == {"absent", "hidden", "disabled", "ready", "stale"}

\* EC.element_to_be_clickable / EC.presence_of_element_located within the
\* timeout; False stands for the TimeoutException.
WaitReturns(element, clickable) ==
    IF clickable THEN element \in {"ready", "stale"} ELSE element # "absent"

\* `if element.is_displayed() and element.is_enabled(): return element`,
\* reached when the wait returned; any exception is `continue`.
ReturnsElement(element, clickable) ==
    /\ WaitReturns(element, clickable)
    /\ element # "stale"
    /\ element = "ready"

InitLocate ==
    /\ master_file = {}
    /\ daily_file = <<>>
    /\ IdleRead
    /\ pc = "locate"
    /\ IdleRun
    /\ IdleDropdown
    /\ IdleClick
    /\ loc_selectors \in SeqsUpTo(ElementStates, MaxSelectors) \ {<<>>}
    /\ loc_clickable \in BOOLEAN
    /\ loc_i = 1
    /\ loc_ret = -1

\* One pass of `for selector in selectors`.
LocTrySelector ==
    /\ loc_ret = -1
    /\ loc_i \in DOMAIN loc_selectors
    /\ IF ReturnsElement(loc_selectors[loc_i], loc_clickable)
       THEN loc_ret' = loc_i /\ UNCHANGED loc_i
       ELSE loc_i' = loc_i + 1 /\ UNCHANGED loc_ret
    /\ UNCHANGED <<inVars, runVars, wfVars, obsVars, lifeVars, sigVars,
                   ddVars, clickVars, navVars, loc_selectors, loc_clickable>>

\* The list is exhausted: `return None`.
LocNotFound ==
    /\ loc_ret = -1
    /\ loc_i > Len(loc_selectors)
    /\ loc_ret' = 0
    /\ UNCHANGED <<inVars, runVars, wfVars, obsVars, lifeVars, sigVars,
                   ddVars, clickVars, navVars, loc_selectors, loc_clickable, loc_i>>

NextLocate ==
    \/ LocTrySelector
    \/ LocNotFound

SpecLocate == InitLocate /\ [][NextLocate]_vars

(***************************************************************************)
(* cleanup() called again and again                                        *)
(***************************************************************************)
\* A bot in any state cleanup() can find it in: browser never opened, open,
\* or closed already; with or without a service; started or not; the end
\* timestamp set (by generate_final_report) or not.
InitCleanup ==
    /\ master_file = {}
    /\ daily_file = <<>>
    /\ IdleRead
    /\ IdleDropdown
    /\ IdleLocate
    /\ IdleClick
    /\ pc = "cl_idle"
    /\ driver \in {"none", "open"}
    /\ service \in {"none", "held"}
    /\ start_time \in BOOLEAN
    /\ end_time_sets \in (IF start_time THEN {0, 1} ELSE {0})
    /\ master_data = {}
    /\ kode_dp_list = <<>>
    /\ index = 0
    /\ attempt = 0
    /\ success = FALSE
    /\ processed_dps = {}
    /\ stats = NoStats
    /\ result = "none"
    /\ filter_attempt = 0
    /\ v_attempt = 0
    /\ validation_status = "none"
    /\ result_dp_text = <<>>
    /\ wf_ret = "none"
    /\ item_trace = <<>>
    /\ wf_clicks = 0
    /\ wf_validations = 0
    /\ contrib = <<>>
    /\ wf_true = {}
    /\ no_data_codes = {}
    /\ wf_actions = <<>>
    /\ quit_calls = 0
    /\ cleanups = 0
    /\ report = FALSE
    /\ exit_code = -1
    /\ cl_ctx = "none"
    /\ exc = "none"
    /\ sig_log = <<>>
    /\ logged_in = FALSE
    /\ last_navigation = "none"

\* bot.cleanup()
CallBotCleanup ==
    /\ pc = "cl_idle"
    /\ cleanups < MaxCleanups
    /\ CallCleanup("caller")
    /\ UNCHANGED <<inVars, driver, master_data, kode_dp_list, index, attempt,
                   success, processed_dps, stats, result, wfVars, obsVars,
                   service, start_time, end_time_sets, quit_calls, cleanups,
                   report, exit_code, exc, sigVars, locVars, clickVars, navVars, ddVars>>

\* driver_manager.cleanup() on its own, as create_driver calls it
CallManagerCleanup ==
    /\ pc = "cl_idle"
    /\ cleanups < MaxCleanups
    /\ cl_ctx' = "caller"
    /\ pc' = "cl_driver"
    /\ UNCHANGED <<inVars, driver, master_data, kode_dp_list, index, attempt,
                   success, processed_dps, stats, result, wfVars, obsVars,
                   service, start_time, end_time_sets, quit_calls, cleanups,
                   report, exit_code, exc, sigVars, locVars, clickVars, navVars, ddVars>>

NextCleanup ==
    \/ CallBotCleanup
    \/ CallManagerCleanup
    \/ CleanupBegin
    \/ CleanupDriver
    \/ CleanupService

SpecCleanup == InitCleanup /\ [][NextCleanup]_vars

(***************************************************************************)
(* Properties of the run with signals                                      *)
(***************************************************************************)
\* C11: when a signal arrives while an item is being processed, the loop
\* stops there: no later item is started, and the interrupted item is added
\* to no counter and not to processed_dps, so the counters stay what the
\* items before it made them.
C11_InterruptedItemUncounted ==
    \A s \in DOMAIN sig_log :
        sig_log[s].at = "in_item"
        => /\ index = sig_log[s].index
           /\ Len(contrib) = sig_log[s].index - 1

\* C12: a run that entered the item loop does not exit before
\* generate_final_report has logged the summary, a run stopped by a signal
\* included.
C12_SummaryBeforeExit ==
    (pc = "exit" /\ index >= 1) => report

\* The browser session was opened at some point of the run.
Opened == driver = "open" \/ quit_calls >= 1

\* C13: whenever the process exits after the browser session was opened,
\* whether the run completed, failed or was stopped by a signal, cleanup()
\* has run to its end and neither the driver nor the service handle is held.
C13_TornDownAtExit ==
    (pc = "exit" /\ Opened)
    => /\ cleanups >= 1
       /\ driver = "none"
       /\ service = "none"

\* With at most one signal in the run the handles are released: the cleanup
\* the signal aborts is followed by the one in main's `finally`.
C13_TornDownAfterOneSignal ==
    (pc = "exit" /\ Opened /\ Len(sig_log) <= 1)
    => /\ cleanups >= 1
       /\ driver = "none"
       /\ service = "none"

(***************************************************************************)
(* Properties of cleanup()                                                 *)
(***************************************************************************)
\* C14: cleanup() can be called any number of times in any state: it never
\* raises, quit() is issued at most once and the end timestamp is set at
\* most once (only while it is unset), after a call both handles are empty,
\* and once one call has returned no later call touches the handles or
\* issues quit() again.
C14_CleanupIdempotent ==
    /\ [](exc = "none" /\ pc \in CleanupPcs \cup {"cl_idle"})
    /\ [](quit_calls <= 1 /\ end_time_sets <= 1)
    /\ []((pc = "cl_idle" /\ cleanups >= 1)
            => (driver = "none" /\ service = "none"))
    /\ [][cleanups >= 1 => UNCHANGED <<driver, service, quit_calls>>]_vars
    /\ [][end_time_sets' # end_time_sets
            => (start_time /\ end_time_sets = 0)]_vars

C14_Witness ==
    /\ pc = "cl_idle"
    /\ cleanups = MaxCleanups
    /\ quit_calls = 1
    /\ end_time_sets = 1

\* A signal was delivered after the item loop had started.
StopRequested ==
    \E s \in DOMAIN sig_log : sig_log[s].at \in {"in_item", "boundary"}

\* The loop takes up an item: one of the skips, or the first attempt.
StartsItem == pc = "item" /\ (pc' = "attempt" \/ index' > index)

\* C15: a signal is acted on only between two items and is never lost: the
\* step in progress when it arrives is not cut short, and once a signal has
\* arrived in the loop no further item is taken up.
C15_InterruptOnlyAtItemBoundary ==
    [][ /\ (Len(sig_log') > Len(sig_log) /\ Phase = "in_item") => pc' = pc
        /\ StopRequested => ~StartsItem ]_vars

\* Taken alone, the second half fails as well: a swallowed signal is lost.
C15_NoItemAfterSignal ==
    [][StopRequested => ~StartsItem]_vars

(***************************************************************************)
(* Properties of the process exit                                          *)
(***************************************************************************)
\* C16: the process exits with code 0 when the item loop ran to its end,
\* whatever the items' outcomes, and with a non-zero code when the run ended
\* before the loop because initialization, data loading, login or the first
\* navigation failed.
C16_ExitCodes ==
    pc = "exit"
    => /\ exit_code \in {0, 1}
       /\ index >= 1 => (index = Len(kode_dp_list) + 1 /\ exit_code = 0)
       /\ index = 0 => exit_code # 0
       /\ exit_code = 0 <=> result = "true"

C16_Witness ==
    /\ pc = "exit"
    /\ exit_code = 0
    /\ index = Len(kode_dp_list) + 1
    /\ stats.failed = 1

\* The other half of C16: a failed login ends the run with code 1.
C16_WitnessStartupFailure ==
    /\ pc = "exit"
    /\ exit_code = 1
    /\ start_time
    /\ kode_dp_list # <<>>
    /\ index = 0

(***************************************************************************)
(* The run on the files of the end-to-end example                          *)
(***************************************************************************)
\* The counter increments logged for a code.
EventsFor(code) == { i \in DOMAIN contrib : contrib[i][2] = code }

\* C17: with lookup keys DP001 and DP002 and the daily list DP001, DP003,
\* DP001, a run that completes has run the workflow for DP001 only and once
\* (one successful-or-failed event), has skipped DP003 as not in the lookup
\* table, reports a total of 2 items, and has logged one skip of the
\* duplicate DP001.
C17_EndToEndWithDuplicate ==
    (pc = "exit" /\ report)
    => /\ \A i \in DOMAIN contrib :
            contrib[i][1] \in {"successful", "failed"} => contrib[i][2] = DP001
       /\ Cardinality({ i \in EventsFor(DP001) : contrib[i][1] # "skipped" }) = 1
       /\ \E i \in EventsFor(DP003) :
            contrib[i] = <<"skipped", DP003, "not in master">>
       /\ total_items = 2
       /\ \E i \in EventsFor(DP001) : contrib[i][1] = "skipped"

\* What does hold on these files: everything but the duplicate's skip; the
\* second DP001 is dropped when the file is read and never reaches the loop.
C17_DuplicateDroppedAtLoad ==
    (pc = "exit" /\ report)
    => /\ kode_dp_list = <<DP001, DP003>>
       /\ Len(contrib) = 2
       /\ contrib[1][1] \in {"successful", "failed"} /\ contrib[1][2] = DP001
       /\ contrib[2] = <<"skipped", DP003, "not in master">>
       /\ stats.skipped = 1
       /\ total_items = 2

(***************************************************************************)
(* Properties of the start of the session                                  *)
(***************************************************************************)
\* create_driver raises in this step.
OpenFails == exc = "none" /\ exc' = "Exception"

\* C18: when create_driver fails, at whichever step, its cleanup() runs next
\* and the failure reaches initialize; the run loads no data, does not log
\* in and processes no item, and the process exits with a non-zero code and
\* no handle held.
C18_FailedOpenEndsRun ==
    /\ [][ /\ OpenFails => (pc' = "cl_driver" /\ cl_ctx' = "create_driver")
           /\ (cl_ctx = "create_driver" /\ cl_ctx' # cl_ctx)
              => (exc = "Exception" /\ cl_ctx' = "initialize"
                  /\ driver' = "none" /\ service' = "none") ]_vars
    /\ [](~start_time
            => /\ pc \in {"main", "cd_config", "exit"} \cup CleanupPcs
               /\ master_data = {}
               /\ kode_dp_list = <<>>
               /\ index = 0
               /\ contrib = <<>>)
    /\ []((pc = "exit" /\ ~start_time)
            => (exit_code = 1 /\ driver = "none" /\ service = "none"))

\* The browser had started and its configuration failed.
C18_Witness ==
    /\ pc = "exit"
    /\ ~start_time
    /\ quit_calls = 1
    /\ exit_code = 1

(***************************************************************************)
(* Properties of wait_for_element                                          *)
(***************************************************************************)
\* The condition a candidate has to satisfy: presence alone when clickable is
\* false, presence and displayed and enabled when it is true.
SatisfiesCondition(element, clickable) ==
    IF clickable THEN element = "ready"
    ELSE element \in {"hidden", "disabled", "ready"}

\* C19: wait_for_element returns the element of the first selector in list
\* order whose element satisfies the condition, and None when no selector's
\* element does.
C19_FirstSatisfyingCandidate ==
    loc_ret >= 0
    => LET satisfying == { k \in DOMAIN loc_selectors :
                             SatisfiesCondition(loc_selectors[k], loc_clickable) }
       IN IF satisfying = {} THEN loc_ret = 0
          ELSE /\ loc_ret \in satisfying
               /\ \A k \in satisfying : loc_ret <= k

\* What the code does: displayed and enabled is required of the element
\* whatever `clickable` is.
C19_FirstReadyCandidate ==
    loc_ret >= 0
    => LET ready == { k \in DOMAIN loc_selectors : loc_selectors[k] = "ready" }
       IN IF ready = {} THEN loc_ret = 0
          ELSE loc_ret \in ready /\ \A k \in ready : loc_ret <= k

(***************************************************************************)
(* Properties of the order of the workflow's UI actions                    *)
(***************************************************************************)
\* The place of a UI action in the order of process_ticket_creation.
Rank(action) ==
    CASE action = "city" -> 1
      [] action = "rk" -> 2
      [] action = "dp" -> 3
      [] action = "filter_button" -> 4
      [] action = "filter" -> 5
      [] action = "validate" -> 6
      [] action = "create_ticket_icon" -> 7
      [] action = "final_create" -> 8
      [] action = "confirm" -> 9

\* The filter click and the validation are the two actions with attempts of
\* their own: a click that fails or a validation that does not match sends
\* the run back to the filter click.
Retried(action) == action \in {"filter", "validate"}

\* C20: in a run of process_ticket_creation the UI actions come in the order
\* city, rk, dp, filter button, filter click, validation, create-ticket
\* icon, final create, confirm, each after the success of the one before;
\* the filter click is made at most FILTER_ATTEMPTS times; an action that
\* fails (the filter click and the validation: once their attempts are used
\* up, or on NO_DATA) is the last one of the run, and the run returns False.
C20_FixedOrderOfUiActions ==
    /\ wf_actions # <<>> => wf_actions[1][1] = "city"
    /\ \A k \in DOMAIN wf_actions : k < Len(wf_actions) =>
          LET a == wf_actions[k]
              b == wf_actions[k + 1]
          IN IF a[2] THEN Rank(b[1]) = Rank(a[1]) + 1
             ELSE Retried(a[1]) /\ b[1] = "filter"
    /\ Cardinality({ k \in DOMAIN wf_actions : wf_actions[k][1] = "filter" })
          <= FILTER_ATTEMPTS
    /\ (wf_actions # <<>> /\ ~Last(wf_actions)[2] /\ ~Retried(Last(wf_actions)[1]))
          => (pc = "wf_returned" /\ wf_ret = "false")
    /\ pc = "wf_returned"
          => (wf_ret = "true" <=> Last(wf_actions) = <<"confirm", TRUE>>)

\* The modal's create button fails: eight actions, and no confirm.
C20_Witness ==
    /\ pc = "wf_returned"
    /\ wf_ret = "false"
    /\ Len(wf_actions) = 8
    /\ Last(wf_actions) = <<"final_create", FALSE>>

(***************************************************************************)
(* C21: the states of a process_ticket_creation run                        *)
(***************************************************************************)
\* The state of the workflow a position of process_ticket_creation is in;
\* "Idle" outside a run of it.
WorkflowState ==
    CASE pc \in {"wf_city", "wf_rk", "wf_dp", "wf_filter_button"} -> "FillingFilters"
      [] pc = "wf_filter" -> "Filtering"
      [] pc \in {"wf_validate", "wf_validated"} -> "ValidatingResult"
      [] pc \in {"wf_create_icon", "wf_final_create"} -> "OpeningTicketModal"
      [] pc = "wf_confirm" -> "ConfirmingCreate"
      [] pc = "wf_returned" /\ wf_ret = "true" -> "Done"
      [] pc = "wf_returned" /\ wf_ret # "true" -> "Failed"
      [] OTHER -> "Idle"

WorkflowTransitions ==
    { <<"Idle", "FillingFilters">>,
      <<"FillingFilters", "Filtering">>,
      <<"Filtering", "ValidatingResult">>,
      <<"ValidatingResult", "Filtering">>,
      <<"ValidatingResult", "OpeningTicketModal">>,
      <<"OpeningTicketModal", "ConfirmingCreate">>,
      <<"ConfirmingCreate", "Done">>,
      <<"Done", "Idle">>,
      <<"Failed", "Idle">> }
      \cup { <<from, "Failed">> : from \in {"FillingFilters", "Filtering",
                 "ValidatingResult", "OpeningTicketModal", "ConfirmingCreate"} }

\* The steps one filter pass can take: the click, the validation passes and
\* the branch on the status.
StepsPerFilterPass == VALIDATE_ATTEMPTS + 2

\* An upper bound on the steps a run of process_ticket_creation still has
\* to take from the position it is at.
StepsLeft ==
    LET tail == 4
        filtering == tail + (FILTER_ATTEMPTS - filter_attempt) * StepsPerFilterPass
    IN CASE pc = "wf_city" -> tail + FILTER_ATTEMPTS * StepsPerFilterPass + 4
         [] pc = "wf_rk" -> tail + FILTER_ATTEMPTS * StepsPerFilterPass + 3
         [] pc = "wf_dp" -> tail + FILTER_ATTEMPTS * StepsPerFilterPass + 2
         [] pc = "wf_filter_button" -> tail + FILTER_ATTEMPTS * StepsPerFilterPass + 1
         [] pc = "wf_filter" -> filtering
         [] pc = "wf_validate" -> filtering - 1 - v_attempt
         [] pc = "wf_validated" -> filtering - StepsPerFilterPass + 1
         [] pc = "wf_create_icon" -> 3
         [] pc = "wf_final_create" -> 2
         [] pc = "wf_confirm" -> 1
         [] OTHER -> 0

\* C21: every run of process_ticket_creation ends in Done or Failed within a
\* bounded number of steps (each step of a run lowers a natural-number bound
\* on the steps left), Done and Failed are left only by returning to the
\* item loop, the state changes only along FillingFilters -> Filtering ->
\* ValidatingResult -> Filtering or OpeningTicketModal -> ConfirmingCreate
\* -> Done, or from any state to Failed, and the run of main() over the
\* daily list ends.
C21_WorkflowTerminates ==
    /\ [](StepsLeft >= 0)
    /\ [][ /\ (WorkflowState' # WorkflowState =>
                  <<WorkflowState, WorkflowState'>> \in WorkflowTransitions)
           /\ (WorkflowState \notin {"Idle", "Done", "Failed"} =>
                  StepsLeft' < StepsLeft) ]_vars
    /\ <>(pc = "exit")

\* A run that looped back from the validation to the filter and still ended
\* in Done.
C21_Witness ==
    /\ pc = "wf_returned"
    /\ wf_ret = "true"
    /\ filter_attempt >= 1

\* The run of main() when the program is never stopped from outside: the
\* interpreter always takes the next step, and every wait has a timeout.
SpecRun == Init /\ [][Next]_vars /\ WF_vars(Next)

(***************************************************************************)
(* ElementHelper.safe_click                                                *)
(***************************************************************************)
\* One thing safe_click did: `act` is "resolve" (wait_for_element on the
\* selectors), "scroll" (scrollIntoView), "native" (element.click()) or
\* "js" (arguments[0].click()); `pass` is the loop pass it belongs to
\* (-1 before the loop).
Did(pass, act, out) == [pass |-> pass, act |-> act, out |-> out]

\* How a call on the element can end: it completes, or raises
\* StaleElementReferenceException or another exception.
CallOutcomes == {"ok", "stale", "error"}

\* `if use_js or attempt > 0`
UsesJs(use_js, nth) == use_js \/ nth > 0

\* What the body of the `try` can do in one pass, up to the statement that
\* completes the click or raises out of the body.
PassScripts(use_js, nth) ==
    { <<Did(nth, "scroll", out)>> : out \in {"stale", "error"} }
    \cup
    (IF UsesJs(use_js, nth)
     THEN { <<Did(nth, "scroll", "ok"), Did(nth, "js", out)>> :
               out \in CallOutcomes }
     ELSE { <<Did(nth, "scroll", "ok"), Did(nth, "native", out)>> :
               out \in CallOutcomes }
          \cup
          { <<Did(nth, "scroll", "ok"),
              Did(nth, "native", "intercepted"),
              Did(nth, "js", out)>> : out \in CallOutcomes })

\* The stale handler, were it to carry on with whatever it was given.
ReResolvesAlways(target) == target \in {"selectors", "handle"}

\* `if isinstance(element_or_selectors, (list, str))`
ReResolves(target) == target = "selectors"

InitClick ==
    /\ master_file = {}
    /\ daily_file = <<>>
    /\ IdleRead
    /\ pc = "safe_click"
    /\ IdleRun
    /\ IdleDropdown
    /\ IdleLocate
    /\ sc_target \in {"selectors", "handle"}
    /\ sc_use_js \in BOOLEAN
    /\ sc_element = "none"
    /\ sc_attempt = 0
    /\ sc_log = <<>>
    /\ sc_ret = "none"

ClickKept == UNCHANGED <<inVars, driver, master_data, kode_dp_list, index,
                         attempt, success, processed_dps, stats, result,
                         wfVars, obsVars, lifeVars, sigVars, locVars, ddVars,
                         navVars, sc_target, sc_use_js>>

\* The head of safe_click: resolve the selectors, or take the handle given
\* (which the caller may have got as None); `if not element: return False`.
ScResolve ==
    /\ pc = "safe_click"
    /\ \E found \in BOOLEAN :
        /\ sc_element' = (IF found THEN "element" ELSE "none")
        /\ sc_log' = (IF ReResolves(sc_target)
                      THEN <<Did(-1, "resolve", IF found THEN "ok" ELSE "none")>>
                      ELSE sc_log)
        /\ IF found
           THEN pc' = "sc_pass" /\ UNCHANGED sc_ret
           ELSE pc' = "sc_done" /\ sc_ret' = "false"
    /\ UNCHANGED sc_attempt
    /\ ClickKept

\* One pass of `for attempt in range(max_attempts)`.
ScPass ==
    /\ pc = "sc_pass"
    /\ sc_attempt < MAX_CLICK_ATTEMPTS
    /\ \E script \in PassScripts(sc_use_js, sc_attempt) :
        LET out == script[Len(script)].out IN
        CASE out = "ok" ->
               /\ sc_log' = sc_log \o script
               /\ sc_ret' = "true"
               /\ pc' = "sc_done"
               /\ UNCHANGED <<sc_element, sc_attempt>>
          [] out = "stale" /\ ReResolves(sc_target) ->
               \E found \in BOOLEAN :
                  /\ sc_log' = sc_log \o script \o
                        <<Did(sc_attempt, "resolve", IF found THEN "ok" ELSE "none")>>
                  /\ IF found
                     THEN /\ sc_attempt' = sc_attempt + 1
                          /\ UNCHANGED <<sc_element, sc_ret, pc>>
                     ELSE /\ sc_element' = "none"
                          /\ sc_ret' = "false"
                          /\ pc' = "sc_done"
                          /\ UNCHANGED sc_attempt
          [] out = "stale" /\ ~ReResolves(sc_target) ->
               /\ sc_log' = sc_log \o script
               /\ sc_ret' = "false"
               /\ pc' = "sc_done"
               /\ UNCHANGED <<sc_element, sc_attempt>>
          [] OTHER ->
               /\ sc_log' = sc_log \o script
               /\ sc_attempt' = sc_attempt + 1
               /\ UNCHANGED <<sc_element, sc_ret, pc>>
    /\ ClickKept

\* The loop ran out: the final `return False`.
ScExhausted ==
    /\ pc = "sc_pass"
    /\ sc_attempt >= MAX_CLICK_ATTEMPTS
    /\ sc_ret' = "false"
    /\ pc' = "sc_done"
    /\ UNCHANGED <<sc_element, sc_attempt, sc_log>>
    /\ ClickKept

NextClick ==
    \/ ScResolve
    \/ ScPass
    \/ ScExhausted

SpecClick == InitClick /\ [][NextClick]_vars

\* The passes of the loop that began, and the click actions performed.
ClickPasses == { i \in DOMAIN sc_log : sc_log[i].act = "scroll" }
ClickActions == { i \in DOMAIN sc_log : sc_log[i].act \in {"native", "js"} }

\* C22: safe_click runs at most max_attempts passes of its click loop and
\* returns True exactly when a click action completed without error; a
\* stale-element error is followed by a re-resolution of the target and, if
\* that finds an element and passes remain, by another pass when the target
\* is a selector list, and by `return False` with nothing further done when
\* the target is an element handle; a target that cannot be resolved gives
\* False without any click.
C22_SafeClick ==
    /\ Cardinality(ClickPasses) <= MAX_CLICK_ATTEMPTS
    /\ (\E i \in ClickActions : sc_log[i].out = "ok") <=> sc_ret = "true"
    /\ \A i \in DOMAIN sc_log :
          sc_log[i].out = "stale" =>
             IF sc_target = "handle"
             THEN i = Len(sc_log) /\ sc_ret = "false"
             ELSE /\ i < Len(sc_log)
                  /\ sc_log[i + 1].act = "resolve"
                  /\ (sc_log[i + 1].out = "none") =>
                        (i + 1 = Len(sc_log) /\ sc_ret = "false")
                  /\ (sc_log[i + 1].out = "ok" /\ i + 1 = Len(sc_log)
                         /\ sc_log[i].pass < MAX_CLICK_ATTEMPTS - 1) =>
                        (pc = "sc_pass" /\ sc_ret = "none")
    /\ (pc = "sc_done" /\ sc_element = "none") =>
          (sc_ret = "false" /\ (ClickActions = {} \/ sc_log[Len(sc_log)].out = "none"))
    /\ (pc = "sc_done" /\ ClickPasses = {}) => (sc_ret = "false" /\ ClickActions = {})

\* A call on a selector list that met a stale element, re-resolved it and
\* clicked on a later pass.
C22_Witness ==
    /\ sc_ret = "true"
    /\ sc_target = "selectors"
    /\ \E i \in DOMAIN sc_log : sc_log[i].out = "stale"

\* A call on an element handle that met a stale element.
C22_WitnessHandle ==
    /\ sc_ret = "false"
    /\ sc_target = "handle"
    /\ \E i \in DOMAIN sc_log : sc_log[i].out = "stale"

InitDaily ==
    /\ master_file = {}
    /\ daily_file \in SeqsUpTo(DailyLines, MaxLines)
    /\ lines_read = <<>>
    /\ seen_codes = {}
    /\ pc = "read_line"
    /\ IdleRun
    /\ IdleDropdown
    /\ IdleLocate
    /\ IdleClick

DailyKept == UNCHANGED <<master_file, driver, master_data, index, attempt,
                         success, processed_dps, stats, result, wfVars,
                         obsVars, lifeVars, sigVars, locVars, clickVars, navVars,
                         ddVars>>

\* One pass of `for line in file`.
ReadLine ==
    /\ pc = "read_line"
    /\ daily_file # <<>>
    /\ LET line == Strip(Head(daily_file)) IN
        IF SkipsLine(line, seen_codes)
        THEN UNCHANGED <<seen_codes, kode_dp_list>>
        ELSE /\ seen_codes' = seen_codes \cup {line}
             /\ kode_dp_list' = Append(kode_dp_list, line)
    /\ lines_read' = Append(lines_read, Head(daily_file))
    /\ daily_file' = Tail(daily_file)
    /\ UNCHANGED pc
    /\ DailyKept

\* The file is at its end: `return kode_dp_list`.
ReadToEnd ==
    /\ pc = "read_line"
    /\ daily_file = <<>>
    /\ pc' = "daily_loaded"
    /\ UNCHANGED <<daily_file, lines_read, seen_codes, kode_dp_list>>
    /\ DailyKept

\* The file is missing, or reading it raises: `except Exception: return []`.
ReadFails ==
    /\ pc = "read_line"
    /\ pc' = "daily_failed"
    /\ kode_dp_list' = <<>>
    /\ UNCHANGED <<daily_file, lines_read, seen_codes>>
    /\ DailyKept

NextDaily ==
    \/ ReadLine
    \/ ReadToEnd
    \/ ReadFails

SpecDaily == InitDaily /\ [][NextDaily]_vars

\* The codes on the lines: the stripped lines that are neither blank nor
\* start with '#'.
CodesOn(lines) ==
    { Strip(lines[k]) : k \in DOMAIN lines } \
        { code \in { Strip(lines[k]) : k \in DOMAIN lines } :
             code = <<>> \/ code[1] = "#" }

\* The first line a code stands on.
FirstLineOf(code, lines) ==
    CHOOSE k \in DOMAIN lines :
       /\ Strip(lines[k]) = code
       /\ \A m \in DOMAIN lines : Strip(lines[m]) = code => k <= m

C24_WitnessCommentAndPadding ==
    /\ pc = "daily_loaded"
    /\ lines_read = << <<"#">> \o DP001, DP002, <<" ">> \o DP002 \o <<" ">> >>
    /\ kode_dp_list = <<DP002>>

(***************************************************************************)
(* C25: the confirmation click is guarded by a MATCH                       *)
(***************************************************************************)
\* The positions of wf_actions holding the given action.
ActionsOf(action) == { k \in DOMAIN wf_actions : wf_actions[k][1] = action }

\* C25: within one run of process_ticket_creation the confirmation dialog
\* is acted on only after a validation that returned MATCH (the stripped
\* text of the first row's code cell equal to the expected code) with no
\* filter click between that validation and the confirmation, and the run
\* returns True only directly after a confirmation click that succeeded.
C25_ConfirmOnlyAfterMatch ==
    /\ \A k \in ActionsOf("confirm") :
          \E m \in ActionsOf("validate") :
             /\ m < k
             /\ wf_actions[m][2]
             /\ \A n \in ActionsOf("filter") : ~(m < n /\ n < k)
    /\ \A m \in ActionsOf("validate") :
          wf_actions[m][2] =>
             /\ validation_status = "MATCH"
             /\ result_dp_text = kode_dp_value
             /\ \A n \in DOMAIN wf_actions :
                   n > m => wf_actions[n][1] \notin {"filter", "validate"}
    /\ (pc = "wf_returned" /\ wf_ret = "true") =>
          /\ wf_actions # <<>>
          /\ wf_actions[Len(wf_actions)] = <<"confirm", TRUE>>

\* A run that confirmed after a mismatch, a second filter click and a MATCH.
C25_Witness ==
    /\ pc = "wf_returned"
    /\ wf_ret = "true"
    /\ wf_validations = 2
    /\ ActionsOf("confirm") # {}

(***************************************************************************)
(* C26: the page a workflow invocation starts on                           *)
(***************************************************************************)
\* C26: process_ticket_creation is invoked only after login() and the first
\* navigate_to_dp_menu() have returned True, and the navigation made last
\* before any invocation, directly or by
\* handle_page_refresh_and_navigation, returned True.
C26_WorkflowStartsOnMenuPage ==
    [][ InvokesWorkflow => (logged_in /\ last_navigation = "true") ]_vars

\* What does hold: no invocation before login and the first navigation
\* succeeded, and no further attempt for the item whose recovery failed.
C26_NoRetryAfterFailedRecovery ==
    [][ InvokesWorkflow =>
          /\ logged_in
          /\ last_navigation # "none"
          /\ (last_navigation = "false" => attempt = 0 /\ index > 1) ]_vars

(***************************************************************************)
(* C27: the counters at the item boundaries and at the end of the loop     *)
(***************************************************************************)
\* successful + failed + skipped
Accounted == stats.successful + stats.failed + stats.skipped

\* C27: when the item loop has run to its end, successful + failed +
\* skipped is the number of codes of the daily list; between two items the
\* three counters add up to the number of items done and processed_dps has
\* as many codes as successful counts.
C27_CountersAddUp ==
    /\ report => Accounted = total_items
    /\ (pc = "item" /\ index >= 1) =>
          /\ Accounted = index - 1
          /\ Cardinality(processed_dps) = stats.successful

\* The loop over three codes ended with one of each outcome.
C27_Witness ==
    /\ report
    /\ total_items = 3
    /\ stats = [successful |-> 1, failed |-> 1, skipped |-> 1]
    /\ Cardinality(processed_dps) = 1

(***************************************************************************)
(* C28: what the dropdown driver reports as selected                       *)
(***************************************************************************)
\* C28 as stated: whenever handle_vue_select_dropdown returns True it has made the
\* widget select an option whose text equals or contains the value, and it
\* does not return True when no rendered option matches the value.
C28_TrueOnlyForMatchingOption ==
    dd_ret = "true" =>
       /\ dd_selected # <<>>
       /\ ContainsMatch(dd_selected[Len(dd_selected)], dd_value)
       /\ \E i \in DOMAIN dd_options : ContainsMatch(dd_options[i], dd_value)

\* C28 (amended): whenever handle_vue_select_dropdown returns True after
\* clicking an option, that option is a rendered one whose text equals the
\* value (exact look-up) or contains it (containing look-up); otherwise it
\* returned True through the blind keyboard confirm, which checks nothing.
C28_ClickedOptionMatches ==
    dd_ret = "true" =>
       /\ dd_via \in {"exact", "contains", "keyboard"}
       /\ dd_via \in {"exact", "contains"} =>
             /\ dd_selected # <<>>
             /\ \E i \in DOMAIN dd_options :
                   dd_options[i] = dd_selected[Len(dd_selected)]
             /\ ContainsMatch(dd_selected[Len(dd_selected)], dd_value)
             /\ dd_via = "exact" =>
                   ExactMatch(dd_selected[Len(dd_selected)], dd_value)

\* True was returned for a clicked option that contains the value without
\* being equal to it.
C28_Witness ==
    /\ dd_ret = "true"
    /\ dd_via = "contains"
    /\ dd_selected # <<>>
    /\ ~ExactMatch(dd_selected[Len(dd_selected)], dd_value)

\* True was returned by the keyboard confirm with no matching option rendered.
C28_WitnessBlindConfirm ==
    /\ dd_ret = "true"
    /\ dd_via = "keyboard"
    /\ \A i \in DOMAIN dd_options : ~ContainsMatch(dd_options[i], dd_value)

====
